---- MODULE Spec2Model ----
(***************************************************************************)
(* Model of the text collection and paragraph reconstruction of            *)
(* frontend/data/pdf_win/pdf_processor_complete.py:                        *)
(*   RapidOCRWrapper.recognize, PDFProcessor.extract_text and its helpers, *)
(*   ParagraphParse.run / _get_units / _parse / _word_separator.           *)
(*                                                                         *)
(* Texts are sequences of Unicode code points.  Coordinates are integers;  *)
(* the running averages of _parse are dyadic rationals, kept exactly as    *)
(* integers scaled by SCALE.  The comparisons against 1.2*h and 0.5*h are  *)
(* made on the exact rationals (5*|d| <= 6*h and 2*ls < 2*s + h): on       *)
(* dyadic inputs of this size the float product h*1.2 rounds to 6h/5       *)
(* whenever 6h/5 is itself dyadic, and is otherwise further from every     *)
(* dyadic value than the rounding error, so the float comparison and the   *)
(* exact one agree.                                                        *)
(***************************************************************************)
EXTENDS Integers, Sequences, FiniteSets, TLC

VARIABLES
    pc,               \* position inside extract_text / run / _parse
    mode,             \* extract_text argument
    ignore_areas,     \* extract_text argument (after `or []`)
    blocks,           \* what page.get_text("dict")["blocks"] returned
    ocr_result,       \* what ocr_engine.recognize returned, all calls concatenated
    images_left,      \* images of the page (or its pixmap) not yet recognized
    spans_left,       \* lines the images not yet recognized may hold, under MaxBlocks
    img,              \* the image of the current iteration of the image loop
    text_blocks,      \* the list extract_text builds and run() annotates
    units,            \* _get_units result, sorted in place by _parse
    i,                \* loop index of the scan in _parse (1-based)
    para_l, para_top, para_r, para_bottom,
    para_line_h, para_line_s,
    paras,            \* list of paragraphs, each a list of units
    paras_line_space,
    result,           \* value returned by run() / extract_text
    runs,             \* how many times run() was entered on text_blocks
    run1,             \* text_blocks and paras as the first run() left them
    heap,             \* the observation dicts of the concurrent run() calls
    par_text_blocks,  \* per call: the list it passes to run(), as references into heap
    par_pc,           \* per call: position inside run() / _parse
    frame,            \* the local variables of _get_units / _parse, per activation
    par_result,       \* per call: what run() returned, and the paragraphs it built
    process_button,   \* PDFProcessorGUI.process_button state
    verify_button,    \* PDFProcessorGUI.verify_button state
    progress,         \* the progress bar is running
    proc_workers,     \* the live threads running process_files, each with its locals
    verify_workers,   \* how many threads running verify_images are live
    after_queue,      \* callbacks handed to root.after, not yet run by the main loop
    last_path         \* how the process_files thread that ended last left its try block

vars == << pc, mode, ignore_areas, blocks, ocr_result, images_left, spans_left, img, text_blocks,
           units, i, para_l, para_top, para_r, para_bottom, para_line_h,
           para_line_s, paras, paras_line_space, result, runs, run1,
           heap, par_text_blocks, par_pc, frame, par_result,
           process_button, verify_button, progress, proc_workers, verify_workers,
           after_queue, last_path >>

pageVars == << pc, mode, ignore_areas, blocks, ocr_result, images_left, spans_left, img, text_blocks,
               units, i, para_l, para_top, para_r, para_bottom, para_line_h,
               para_line_s, paras, paras_line_space, result, runs, run1 >>

parVars == << heap, par_text_blocks, par_pc, frame, par_result >>

guiVars == << process_button, verify_button, progress, proc_workers, verify_workers,
              after_queue, last_path >>

----------------------------------------------------------------------------
(* Bounds *)

MaxBlocks == 3      \* input spans (native lines + OCR lines) per page
MaxImages == 2      \* embedded images per page

SCALE == 2 ^ MaxBlocks

----------------------------------------------------------------------------
(* Texts (code points) *)

Hello  == << 72, 101, 108, 108, 111 >>
World  == << 87, 111, 114, 108, 100 >>
Footer == << 70, 111, 111, 116, 101, 114 >>
NiHao  == << 20320, 22909 >>            \* U+4F60 U+597D
ShiJie == << 19990, 30028 >>            \* U+4E16 U+754C
CommaX == << 44, 120 >>                 \* ",x"
DotX   == << 46, 120 >>                 \* ".x"

SepNone    == << >>
SepSpace   == << 32 >>
SepNewline == << 10 >>

None == [def |-> FALSE, v |-> 0]
Some(v) == [def |-> TRUE, v |-> v]

Abs(n) == IF n < 0 THEN -n ELSE n

SeqsUpTo(S, n) == UNION { [1..k -> S] : k \in 0..n }

RECURSIVE Concat(_)
Concat(ss) == IF ss = << >> THEN << >> ELSE Head(ss) \o Concat(Tail(ss))

SetMin(S) == CHOOSE m \in S : \A e \in S : m <= e
SetMax(S) == CHOOSE m \in S : \A e \in S : m >= e

----------------------------------------------------------------------------
(* Inputs the collaborators can hand over: page blocks as PyMuPDF's        *)
(* get_text("dict") reports them, and images with the engine's raw lines.  *)

Line(bbox, spans) == [bbox |-> bbox, spans |-> spans]
TextBlock(line)   == [type |-> 0, lines |-> << line >>]
ImageBlock        == [type |-> 1, lines |-> << >>]

PageBlocks ==
    { TextBlock(Line(<< 0, 0, 100, 20 >>, << Hello >>)),
      TextBlock(Line(<< 0, 22, 100, 42 >>, << World >>)),
      TextBlock(Line(<< 0, 200, 100, 220 >>, << Footer >>)),
      TextBlock(Line(<< 0, 44, 100, 64 >>, << << 99, 111 >>, << 45 >> >>)),  \* "co" "-"
      TextBlock(Line(<< 30, 46, 100, 66 >>, << CommaX >>)),
      TextBlock(Line(<< 0, 66, 100, 86 >>, << << >> >>)),                  \* empty text
      ImageBlock }

Quad(x0, y0, x1, y1) == << << x0, y0 >>, << x1, y0 >>, << x1, y1 >>, << x0, y1 >> >>
RawLine(box, text, score) == << box, text, score >>

RawLines ==
    { RawLine(Quad(0, 22, 100, 42), ShiJie, 90),
      RawLine(Quad(0, 0, 100, 20), NiHao, 95),
      RawLine(<< << 0, 44 >>, << 100, 48 >>, << 100, 64 >>, << 0, 68 >> >>, World, 70),  \* skewed
      RawLine(Quad(0, 44, 100, 44), DotX, 60),                           \* top = bottom
      RawLine(<< << 0, 0 >>, << 100, 0 >>, << 100, 20 >> >>, Hello, 50),  \* 3 points
      RawLine(Quad(0, 66, 100, 86), << >>, 40) }                         \* empty text

Image(decodable, lines) == [decodable |-> decodable, lines |-> lines]

IgnoreChoices ==
    { << >>,
      << << 0, 190, 200, 230 >> >>,
      << << 0, 50, 50, 55 >> >>,
      << << 100, 20, 0, 0 >>, << 0, 190, 200, 230 >> >> }

Modes == { "mixed", "textOnly", "imageOnly", "fullPage" }

----------------------------------------------------------------------------
(* RapidOCRWrapper.recognize: any exception (undecodable image, a line     *)
(* whose box lacks one of the 4 points) is caught and yields [].           *)

RecognizeRaises(img_bytes) ==
    \/ ~ img_bytes.decodable
    \/ \E k \in 1..Len(img_bytes.lines) : Len(img_bytes.lines[k][1]) < 4

(* Variant of recognize: on a failure the lines converted so far are       *)
(* returned                                                                *)
RecognizeKeepsEarlierLines(img_bytes) ==
    IF ~ img_bytes.decodable THEN << >>
    ELSE LET n == SetMax({ k \in 0..Len(img_bytes.lines) :
                             \A j \in 1..k : Len(img_bytes.lines[j][1]) >= 4 })
         IN  [k \in 1..n |->
                [text  |-> img_bytes.lines[k][2],
                 box   |-> SubSeq(img_bytes.lines[k][1], 1, 4),
                 score |-> img_bytes.lines[k][3]]]

recognize(img_bytes) ==
    IF RecognizeRaises(img_bytes) THEN << >>
    ELSE [k \in 1..Len(img_bytes.lines) |->
            [text  |-> img_bytes.lines[k][2],
             box   |-> SubSeq(img_bytes.lines[k][1], 1, 4),
             score |-> img_bytes.lines[k][3]]]

(* Variant of _ocr_image: the provenance tag of the native branch *)
OcrImageTaggedText(img_bytes) ==
    LET ocr == recognize(img_bytes)
    IN  [k \in 1..Len(ocr) |->
            [box |-> ocr[k].box, text |-> ocr[k].text, from |-> "text",
             end |-> SepNone, score |-> ocr[k].score]]

(* PDFProcessor._ocr_image *)
ocr_image(img_bytes) ==
    LET ocr == recognize(img_bytes)
    IN  [k \in 1..Len(ocr) |->
            [box |-> ocr[k].box, text |-> ocr[k].text, from |-> "ocr",
             end |-> SepNone, score |-> ocr[k].score]]

(* Variant of _is_in_ignore_area: strict comparisons, boundary excluded *)
IsInIgnoreAreaStrict(bbox, areas) ==
    LET cx2 == bbox[1] + bbox[3]
        cy2 == bbox[2] + bbox[4]
    IN  \E a \in 1..Len(areas) :
            /\ 2 * areas[a][1] < cx2 /\ cx2 < 2 * areas[a][3]
            /\ 2 * areas[a][2] < cy2 /\ cy2 < 2 * areas[a][4]

(* Variant of _is_in_ignore_area: the corners of a rectangle are put in   *)
(* order before the comparison                                            *)
IsInIgnoreAreaNormalised(bbox, areas) ==
    LET cx2 == bbox[1] + bbox[3]
        cy2 == bbox[2] + bbox[4]
    IN  \E a \in 1..Len(areas) :
            /\ 2 * SetMin({ areas[a][1], areas[a][3] }) <= cx2
            /\ cx2 <= 2 * SetMax({ areas[a][1], areas[a][3] })
            /\ 2 * SetMin({ areas[a][2], areas[a][4] }) <= cy2
            /\ cy2 <= 2 * SetMax({ areas[a][2], areas[a][4] })

(* PDFProcessor._is_in_ignore_area; the centre is compared doubled. *)
is_in_ignore_area(bbox, areas) ==
    LET cx2 == bbox[1] + bbox[3]
        cy2 == bbox[2] + bbox[4]
    IN  \E a \in 1..Len(areas) :
            /\ 2 * areas[a][1] <= cx2 /\ cx2 <= 2 * areas[a][3]
            /\ 2 * areas[a][2] <= cy2 /\ cy2 <= 2 * areas[a][4]

(* bbox that _filter_ignore_areas hands to _is_in_ignore_area *)
FilterBBox(block) ==
    << block.box[1][1], block.box[1][2], block.box[3][1], block.box[3][2] >>

(* PDFProcessor._filter_ignore_areas *)
filter_ignore_areas(bs, areas) ==
    SelectSeq(bs, LAMBDA b : ~ is_in_ignore_area(FilterBBox(b), areas))

(* One native line of extract_text: "".join of the span texts *)
LineText(line) == Concat(line.spans)

(* Variant of the native observation: created with "\n" as separator *)
NativeBlockEndNewline(line) ==
    [box  |-> Quad(line.bbox[1], line.bbox[2], line.bbox[3], line.bbox[4]),
     text |-> LineText(line), from |-> "text", end |-> SepNewline]

(* The observation extract_text appends for a native line *)
NativeBlock(line) ==
    [box  |-> Quad(line.bbox[1], line.bbox[2], line.bbox[3], line.bbox[4]),
     text |-> LineText(line), from |-> "text", end |-> SepNone]

KeepLine(line, areas) ==
    LineText(line) # << >> /\ ~ is_in_ignore_area(line.bbox, areas)

(* The lines of the text blocks (type 0) of a page, in page order *)
PageLines(bs) ==
    Concat([k \in 1..Len(bs) |-> IF bs[k].type = 0 THEN bs[k].lines ELSE << >>])

(* The native part of extract_text *)
NativeTextBlocks(bs, areas) ==
    LET kept == SelectSeq(PageLines(bs), LAMBDA ln : KeepLine(ln, areas))
    IN  [k \in 1..Len(kept) |-> NativeBlock(kept[k])]

ReadsText(m)   == m \in { "mixed", "textOnly" }
ReadsImages(m) == m \in { "mixed", "imageOnly", "fullPage" }

----------------------------------------------------------------------------
(* ParagraphParse *)

(* Variant of set_end: the separator is appended to the one already there *)
SetEndAppend(tb, sep) == [tb EXCEPT !.end = @ \o sep]

(* Variant of set_end: the separator is also appended to the text *)
SetEndIntoText(tb, sep) == [tb EXCEPT !.text = @ \o sep, !.end = sep]

(* get_info / set_end as PDFProcessor.__init__ injects them *)
get_info(tb) == << tb.box, tb.text >>
set_end(tb, sep) == [tb EXCEPT !.end = sep]

(* text[0] / text[-1] raise IndexError on an empty text *)
GetUnitsRaises(tbs) == \E k \in 1..Len(tbs) : Len(get_info(tbs[k])[2]) = 0

(* _get_units: (bbox, (text[0], text[-1]), tb); tb is the index of the     *)
(* dict in text_blocks, standing for the reference the tuple holds.        *)
get_units(tbs) ==
    [k \in 1..Len(tbs) |->
        LET info == get_info(tbs[k])
        IN  [bbox    |-> info[1],
             letters |-> << info[2][1], info[2][Len(info[2])] >>,
             tb      |-> k]]

(* get_bbox_bounds: (min xs, min ys, max xs, max ys) *)
get_bbox_bounds(bbox) ==
    LET xs == { bbox[k][1] : k \in 1..Len(bbox) }
        ys == { bbox[k][2] : k \in 1..Len(bbox) }
    IN  << SetMin(xs), SetMin(ys), SetMax(xs), SetMax(ys) >>

(* Variant of the sort key: the bottom of the box *)
SortKeyBottom(u) == get_bbox_bounds(u.bbox)[4]

(* key=lambda a: get_bbox_bounds(a[0])[1] *)
SortKey(u) == get_bbox_bounds(u.bbox)[2]

(* units.sort(key=...): list.sort is stable *)
RECURSIVE InsertByKey(_, _)
InsertByKey(us, u) ==
    IF us = << >> THEN << u >>
    ELSE IF SortKey(us[Len(us)]) <= SortKey(u) THEN Append(us, u)
    ELSE Append(InsertByKey(SubSeq(us, 1, Len(us) - 1), u), us[Len(us)])

RECURSIVE SortUnits(_)
SortUnits(us) ==
    IF us = << >> THEN << >>
    ELSE InsertByKey(SortUnits(SubSeq(us, 1, Len(us) - 1)), us[Len(us)])

(* Variant of the empty-input guard: no early return *)
NoUnitsNever(us) == FALSE

(* `if not units: return` *)
NoUnits(us) == us = << >>

(* Variant of the same-paragraph test: the right margin tested twice *)
SameParagraphNoLeft(pl, pr, ph, ps, l, r, ls) ==
    /\ 5 * Abs(pr - r * SCALE) <= 6 * ph
    /\ 5 * Abs(pr - r * SCALE) <= 6 * ph
    /\ (~ ps.def \/ 2 * ls * SCALE < 2 * ps.v + ph)

(* Variant of the same-paragraph test: the spacing clause left out *)
SameParagraphNoSpacing(pl, pr, ph, ps, l, r, ls) ==
    /\ 5 * Abs(pl - l * SCALE) <= 6 * ph
    /\ 5 * Abs(pr - r * SCALE) <= 6 * ph

(* Variant of the same-paragraph test: the margin tolerance is            *)
(* 1.2 * h + 30 instead of 1.2 * h                                        *)
SameParagraphSlack(pl, pr, ph, ps, l, r, ls) ==
    /\ 5 * Abs(pl - l * SCALE) <= 6 * ph + 150 * SCALE
    /\ 5 * Abs(pr - r * SCALE) <= 6 * ph + 150 * SCALE
    /\ (~ ps.def \/ 2 * ls * SCALE < 2 * ps.v + ph)

(* The same-paragraph test of the scan.  pl, pr, ph, ps are the running    *)
(* values (scaled by SCALE); l, r, ls are the candidate's (unscaled).      *)
SameParagraph(pl, pr, ph, ps, l, r, ls) ==
    /\ 5 * Abs(pl - l * SCALE) <= 6 * ph
    /\ 5 * Abs(pr - r * SCALE) <= 6 * ph
    /\ (~ ps.def \/ 2 * ls * SCALE < 2 * ps.v + ph)

(* Variant of the running average: the candidate value is not taken in *)
AvgKeepsRunning(a, b) == a

(* (a + b) / 2 on a scaled running value and an unscaled candidate value *)
Avg(a, b) == (a + b * SCALE) \div 2

MergeSpacing(ps, ls) == IF ~ ps.def THEN Some(ls * SCALE) ELSE Some(Avg(ps.v, ls))

(* Variant of is_cjk: the CJK Unified Ideographs range left out *)
IsCjkNoIdeographs(c) ==
    \/ 12352 <= c /\ c <= 12543
    \/ 4352  <= c /\ c <= 4607
    \/ 12592 <= c /\ c <= 12687
    \/ 44032 <= c /\ c <= 55215
    \/ 12288 <= c /\ c <= 12351
    \/ 65072 <= c /\ c <= 65103
    \/ 65280 <= c /\ c <= 65519

(* _word_separator.is_cjk *)
is_cjk(c) ==
    \/ 19968 <= c /\ c <= 40959      \* 0x4E00 - 0x9FFF
    \/ 12352 <= c /\ c <= 12543      \* 0x3040 - 0x30FF
    \/ 4352  <= c /\ c <= 4607       \* 0x1100 - 0x11FF
    \/ 12592 <= c /\ c <= 12687      \* 0x3130 - 0x318F
    \/ 44032 <= c /\ c <= 55215      \* 0xAC00 - 0xD7AF
    \/ 12288 <= c /\ c <= 12351      \* 0x3000 - 0x303F
    \/ 65072 <= c /\ c <= 65103      \* 0xFE30 - 0xFE4F
    \/ 65280 <= c /\ c <= 65519      \* 0xFF00 - 0xFFEF

(* unicodedata.category(c).startswith("P"), on the characters used here *)
IsPunctuation(c) ==
    c \in { 33, 34, 35, 37, 38, 39, 40, 41, 42, 44, 45, 46, 47, 58, 59, 63, 64,
            91, 92, 93, 95, 123, 125, 12289, 12290, 65292 }

(* Variant of _word_separator: one CJK character is enough for "" *)
WordSeparatorEitherCjk(letter1, letter2) ==
    IF is_cjk(letter1) \/ is_cjk(letter2) THEN SepNone
    ELSE IF letter1 = 45 THEN SepNone
    ELSE IF IsPunctuation(letter2) THEN SepNone
    ELSE SepSpace

(* Variant of _word_separator: the final case returns "" *)
WordSeparatorNoSpace(letter1, letter2) ==
    IF is_cjk(letter1) /\ is_cjk(letter2) THEN SepNone
    ELSE IF letter1 = 45 THEN SepNone
    ELSE IF IsPunctuation(letter2) THEN SepNone
    ELSE SepNone

(* Variant of _word_separator: the hyphen case left out *)
WordSeparatorNoHyphen(letter1, letter2) ==
    IF is_cjk(letter1) /\ is_cjk(letter2) THEN SepNone
    ELSE IF IsPunctuation(letter2) THEN SepNone
    ELSE SepSpace

(* Variant of _word_separator: the punctuation case left out *)
WordSeparatorNoPunct(letter1, letter2) ==
    IF is_cjk(letter1) /\ is_cjk(letter2) THEN SepNone
    ELSE IF letter1 = 45 THEN SepNone
    ELSE SepSpace

(* _word_separator *)
word_separator(letter1, letter2) ==
    IF is_cjk(letter1) /\ is_cjk(letter2) THEN SepNone
    ELSE IF letter1 = 45 THEN SepNone
    ELSE IF IsPunctuation(letter2) THEN SepNone
    ELSE SepSpace

(* Variant of the separator loop: every unit gets "\n" *)
ParaEndAllNewline(para, k) == SepNewline

(* Variant of the separator loop: the closing set_end(para[-1], "\n") left out *)
ParaEndNoNewline(para, k) ==
    IF k < Len(para)
    THEN word_separator(para[k].letters[2], para[k + 1].letters[1])
    ELSE SepNone

(* The separator loop of _parse on one paragraph: every unit but the last  *)
(* gets the word separator towards its successor, the last gets "\n".      *)
ParaEnd(para, k) ==
    IF k < Len(para)
    THEN word_separator(para[k].letters[2], para[k + 1].letters[1])
    ELSE SepNewline

RECURSIVE SetParaEnds(_, _, _)
SetParaEnds(tbs, para, k) ==
    IF k > Len(para) THEN tbs
    ELSE SetParaEnds([tbs EXCEPT ![para[k].tb] = set_end(@, ParaEnd(para, k))],
                     para, k + 1)

RECURSIVE SetEnds(_, _, _)
SetEnds(tbs, ps, p) ==
    IF p > Len(ps) THEN tbs
    ELSE SetEnds(SetParaEnds(tbs, ps[p], 1), ps, p + 1)

(* run() returns the list it was given *)
RunReturn(tbs, us) == tbs

(* Variant of the split branch: paras = [now_para] instead of paras.append *)
SplitParasReset(ps, u) == << << u >> >>

(* now_para.append(units[i]) / paras.append([units[i]]) *)
MergeParas(ps, u) == [ps EXCEPT ![Len(ps)] = Append(@, u)]
SplitParas(ps, u) == Append(ps, << u >>)

----------------------------------------------------------------------------
(* _parse on the local variables of one activation, as a record *)

EmptyFrame ==
    [units |-> << >>, i |-> 0, para_l |-> 0, para_top |-> 0, para_r |-> 0,
     para_bottom |-> 0, para_line_h |-> 0, para_line_s |-> None,
     paras |-> << >>, paras_line_space |-> << >>]

(* _parse from the sort to the entry of the scan loop (units not empty) *)
StartFrame(f) ==
    LET sorted == SortUnits(f.units)
        b == get_bbox_bounds(sorted[1].bbox)
    IN  [f EXCEPT !.units = sorted,
                  !.para_l = b[1] * SCALE,
                  !.para_top = b[2],
                  !.para_r = b[3] * SCALE,
                  !.para_bottom = b[4],
                  !.para_line_h = (b[4] - b[2]) * SCALE,
                  !.para_line_s = None,
                  !.paras = << << sorted[1] >> >>,
                  !.paras_line_space = << None >>,
                  !.i = 2]

(* Variant of the scan iteration: para_bottom is updated on a merge only *)
ScanFrameBottomOnMerge(f) ==
    LET b == get_bbox_bounds(f.units[f.i].bbox)
        h == b[4] - b[2]
        ls == b[2] - f.para_bottom
    IN  IF SameParagraph(f.para_l, f.para_r, f.para_line_h, f.para_line_s, b[1], b[3], ls)
        THEN [f EXCEPT !.para_l = Avg(f.para_l, b[1]),
                       !.para_r = Avg(f.para_r, b[3]),
                       !.para_line_h = Avg(f.para_line_h, h),
                       !.para_line_s = MergeSpacing(f.para_line_s, ls),
                       !.paras = MergeParas(f.paras, f.units[f.i]),
                       !.para_bottom = b[4],
                       !.i = f.i + 1]
        ELSE [f EXCEPT !.paras = SplitParas(f.paras, f.units[f.i]),
                       !.paras_line_space = Append(f.paras_line_space, f.para_line_s),
                       !.para_l = b[1] * SCALE,
                       !.para_r = b[3] * SCALE,
                       !.para_line_h = h * SCALE,
                       !.para_line_s = None,
                       !.i = f.i + 1]

(* Variant of the scan iteration: a split keeps the spacing of the closed  *)
(* paragraph                                                               *)
ScanFrameSplitKeepsSpacing(f) ==
    LET b == get_bbox_bounds(f.units[f.i].bbox)
        h == b[4] - b[2]
        ls == b[2] - f.para_bottom
    IN  IF SameParagraph(f.para_l, f.para_r, f.para_line_h, f.para_line_s, b[1], b[3], ls)
        THEN [f EXCEPT !.para_l = Avg(f.para_l, b[1]),
                       !.para_r = Avg(f.para_r, b[3]),
                       !.para_line_h = Avg(f.para_line_h, h),
                       !.para_line_s = MergeSpacing(f.para_line_s, ls),
                       !.paras = MergeParas(f.paras, f.units[f.i]),
                       !.para_bottom = b[4],
                       !.i = f.i + 1]
        ELSE [f EXCEPT !.paras = SplitParas(f.paras, f.units[f.i]),
                       !.paras_line_space = Append(f.paras_line_space, f.para_line_s),
                       !.para_l = b[1] * SCALE,
                       !.para_r = b[3] * SCALE,
                       !.para_line_h = h * SCALE,
                       !.para_bottom = b[4],
                       !.i = f.i + 1]

(* Variant of the scan iteration: the tolerances are taken from the        *)
(* candidate's own height instead of the running line height              *)
ScanFrameCandidateHeight(f) ==
    LET b == get_bbox_bounds(f.units[f.i].bbox)
        h == b[4] - b[2]
        ls == b[2] - f.para_bottom
    IN  IF SameParagraph(f.para_l, f.para_r, h * SCALE, f.para_line_s, b[1], b[3], ls)
        THEN [f EXCEPT !.para_l = Avg(f.para_l, b[1]),
                       !.para_r = Avg(f.para_r, b[3]),
                       !.para_line_h = Avg(f.para_line_h, h),
                       !.para_line_s = MergeSpacing(f.para_line_s, ls),
                       !.paras = MergeParas(f.paras, f.units[f.i]),
                       !.para_bottom = b[4],
                       !.i = f.i + 1]
        ELSE [f EXCEPT !.paras = SplitParas(f.paras, f.units[f.i]),
                       !.paras_line_space = Append(f.paras_line_space, f.para_line_s),
                       !.para_l = b[1] * SCALE,
                       !.para_r = b[3] * SCALE,
                       !.para_line_h = h * SCALE,
                       !.para_line_s = None,
                       !.para_bottom = b[4],
                       !.i = f.i + 1]

(* One iteration of `for i in range(1, len(units))` *)
ScanFrame(f) ==
    LET b == get_bbox_bounds(f.units[f.i].bbox)
        h == b[4] - b[2]
        ls == b[2] - f.para_bottom
    IN  IF SameParagraph(f.para_l, f.para_r, f.para_line_h, f.para_line_s, b[1], b[3], ls)
        THEN [f EXCEPT !.para_l = Avg(f.para_l, b[1]),
                       !.para_r = Avg(f.para_r, b[3]),
                       !.para_line_h = Avg(f.para_line_h, h),
                       !.para_line_s = MergeSpacing(f.para_line_s, ls),
                       !.paras = MergeParas(f.paras, f.units[f.i]),
                       !.para_bottom = b[4],
                       !.i = f.i + 1]
        ELSE [f EXCEPT !.paras = SplitParas(f.paras, f.units[f.i]),
                       !.paras_line_space = Append(f.paras_line_space, f.para_line_s),
                       !.para_l = b[1] * SCALE,
                       !.para_r = b[3] * SCALE,
                       !.para_line_h = h * SCALE,
                       !.para_line_s = None,
                       !.para_bottom = b[4],
                       !.i = f.i + 1]

(* The scan loop run to its end *)
RECURSIVE ScanAll(_)
ScanAll(f) == IF f.i > Len(f.units) THEN f ELSE ScanAll(ScanFrame(f))

----------------------------------------------------------------------------
(* Concurrent calls of run() on one ParagraphParse instance *)

MaxParLen == 2      \* observations per concurrent call

Calls == { 1, 2 }

(* The observations the concurrent calls are given *)
ParBlocks ==
    { NativeBlock(Line(<< 0, 0, 100, 20 >>, << Hello >>)),
      NativeBlock(Line(<< 0, 22, 100, 42 >>, << World >>)),
      NativeBlock(Line(<< 30, 46, 100, 66 >>, << CommaX >>)),
      [box |-> Quad(0, 22, 100, 42), text |-> NiHao, from |-> "ocr", end |-> SepNone,
       score |-> 95] }

(* Variant of the activation record: one record on the instance, used by   *)
(* every call                                                              *)
SharedFrame(c) == 1

(* Where the local variables of call c live: every call of _get_units and  *)
(* _parse has its own; the instance holds get_info and set_end only        *)
FrameOf(c) == c

(* _get_units on a list of references: each tuple holds the reference *)
UnitsOf(objs, refs) == [k \in 1..Len(refs) |-> get_units(objs)[refs[k]]]

(* The list of dicts a list of references stands for *)
Deref(objs, refs) == [k \in 1..Len(refs) |-> objs[refs[k]]]

----------------------------------------------------------------------------
(* State machine *)

Init ==
    /\ pc = "idle"
    /\ mode = "mixed"
    /\ ignore_areas = << >>
    /\ blocks = << >>
    /\ ocr_result = << >>
    /\ images_left = 0
    /\ spans_left = 0
    /\ img = << >>
    /\ text_blocks = << >>
    /\ units = << >>
    /\ i = 0
    /\ para_l = 0 /\ para_top = 0 /\ para_r = 0 /\ para_bottom = 0
    /\ para_line_h = 0
    /\ para_line_s = None
    /\ paras = << >>
    /\ paras_line_space = << >>
    /\ result = << >>
    /\ runs = 0
    /\ run1 = [text_blocks |-> << >>, paras |-> << >>]
    /\ heap = << >>
    /\ par_text_blocks = [c \in Calls |-> << >>]
    /\ par_pc = [c \in Calls |-> "idle"]
    /\ frame = [c \in Calls |-> EmptyFrame]
    /\ par_result = [c \in Calls |-> << >>]
    /\ process_button = "normal"
    /\ verify_button = "normal"
    /\ progress = FALSE
    /\ proc_workers = << >>
    /\ verify_workers = 0
    /\ after_queue = << >>
    /\ last_path = "none"

parseVars == << units, i, para_l, para_top, para_r, para_bottom, para_line_h,
                para_line_s, paras, paras_line_space >>

(* How many recognitions the mode makes: the page pixmap in fullPage mode, *)
(* every embedded image in mixed and imageOnly mode, none in textOnly mode *)
ImageCounts(m) ==
    IF m = "fullPage" THEN { 1 }
    ELSE IF ReadsImages(m) THEN 0..MaxImages
    ELSE { 0 }

(* extract_text up to the end of the native-text loop *)
ExtractNative ==
    /\ pc = "idle"
    /\ \E m \in Modes, areas \in IgnoreChoices :
        \E bs \in (IF ReadsText(m) THEN SeqsUpTo(PageBlocks, MaxBlocks) ELSE { << >> }) :
            /\ mode' = m
            /\ ignore_areas' = areas
            /\ blocks' = bs
            /\ text_blocks' = NativeTextBlocks(bs, areas)
            /\ images_left' \in ImageCounts(m)
            /\ spans_left' = MaxBlocks - Len(PageLines(bs))
    /\ pc' = "images"
    /\ UNCHANGED << ocr_result, img, result, runs, run1 >>
    /\ UNCHANGED parseVars
    /\ UNCHANGED parVars
    /\ UNCHANGED guiVars

(* One image (or the page pixmap in fullPage mode): _ocr_image, then      *)
(* _filter_ignore_areas, then text_blocks.extend                           *)
OcrImage ==
    /\ pc = "images"
    /\ images_left > 0
    /\ \E im \in { Image(FALSE, << >>) } \cup
                  { Image(TRUE, ls) :
                      ls \in SeqsUpTo(RawLines, spans_left) } :
        /\ img' = << im >>
        /\ spans_left' = spans_left - Len(im.lines)
        /\ ocr_result' = ocr_result \o recognize(im)
        /\ text_blocks' = text_blocks \o filter_ignore_areas(ocr_image(im), ignore_areas)
    /\ images_left' = images_left - 1
    /\ UNCHANGED << pc, mode, ignore_areas, blocks, result, runs, run1 >>
    /\ UNCHANGED parseVars
    /\ UNCHANGED parVars
    /\ UNCHANGED guiVars

(* run(): _get_units *)
EnterRun ==
    /\ IF GetUnitsRaises(text_blocks)
       THEN pc' = "error" /\ UNCHANGED units
       ELSE pc' = "parse" /\ units' = get_units(text_blocks)
    /\ runs' = runs + 1
    /\ img' = << >>
    /\ spans_left' = 0
    /\ UNCHANGED << mode, ignore_areas, blocks, ocr_result, images_left, text_blocks, result,
                    i, para_l, para_top, para_r, para_bottom, para_line_h,
                    para_line_s, paras, paras_line_space >>
    /\ UNCHANGED parVars
    /\ UNCHANGED guiVars

(* extract_text: return self.paragraph_parser.run(text_blocks) *)
Run ==
    /\ pc = "images"
    /\ images_left = 0
    /\ EnterRun
    /\ UNCHANGED run1

(* run() called once more on the list the previous run() returned *)
Rerun ==
    /\ pc = "done"
    /\ runs = 1
    /\ EnterRun
    /\ run1' = [text_blocks |-> text_blocks, paras |-> paras]

(* _parse up to the scan loop *)
ParseStart ==
    /\ pc = "parse"
    /\ IF NoUnits(units)
       THEN /\ pc' = "done"
            /\ result' = RunReturn(text_blocks, units)
            /\ paras' = << >>
            /\ UNCHANGED << units, i, para_l, para_top, para_r, para_bottom,
                            para_line_h, para_line_s, paras_line_space >>
       ELSE IF Len(units) = 0
       THEN /\ pc' = "error"           \* units[0]: IndexError
            /\ UNCHANGED result
            /\ UNCHANGED parseVars
       ELSE LET sorted == SortUnits(units)
                b == get_bbox_bounds(sorted[1].bbox)
            IN  /\ units' = sorted
                /\ para_l' = b[1] * SCALE
                /\ para_top' = b[2]
                /\ para_r' = b[3] * SCALE
                /\ para_bottom' = b[4]
                /\ para_line_h' = (b[4] - b[2]) * SCALE
                /\ para_line_s' = None
                /\ paras' = << << sorted[1] >> >>
                /\ paras_line_space' = << None >>
                /\ i' = 2
                /\ pc' = "scan"
                /\ UNCHANGED result
    /\ UNCHANGED << mode, ignore_areas, blocks, ocr_result, images_left, spans_left, img, text_blocks,
                    runs, run1 >>
    /\ UNCHANGED parVars
    /\ UNCHANGED guiVars

(* One iteration of `for i in range(1, len(units))`, on the locals of the  *)
(* call in progress                                                        *)
ScanStep ==
    /\ pc = "scan"
    /\ i <= Len(units)
    /\ LET f == ScanFrame([units |-> units, i |-> i, para_l |-> para_l,
                           para_top |-> para_top, para_r |-> para_r,
                           para_bottom |-> para_bottom, para_line_h |-> para_line_h,
                           para_line_s |-> para_line_s, paras |-> paras,
                           paras_line_space |-> paras_line_space])
       IN  /\ para_l' = f.para_l
           /\ para_r' = f.para_r
           /\ para_bottom' = f.para_bottom
           /\ para_line_h' = f.para_line_h
           /\ para_line_s' = f.para_line_s
           /\ paras' = f.paras
           /\ paras_line_space' = f.paras_line_space
           /\ i' = f.i
    /\ UNCHANGED << pc, mode, ignore_areas, blocks, ocr_result, images_left, spans_left, img, text_blocks,
                    units, para_top, result, runs, run1 >>
    /\ UNCHANGED parVars
    /\ UNCHANGED guiVars

(* The separator loop of _parse, and the return of run() *)
SetSeparators ==
    /\ pc = "scan"
    /\ i > Len(units)
    /\ text_blocks' = SetEnds(text_blocks, paras, 1)
    /\ result' = RunReturn(text_blocks', units)
    /\ pc' = "done"
    /\ UNCHANGED << mode, ignore_areas, blocks, ocr_result, images_left, spans_left, img, runs, run1 >>
    /\ UNCHANGED parseVars
    /\ UNCHANGED parVars
    /\ UNCHANGED guiVars

Next ==
    \/ ExtractNative
    \/ OcrImage
    \/ Run
    \/ Rerun
    \/ ParseStart
    \/ ScanStep
    \/ SetSeparators

Spec == Init /\ [][Next]_vars

----------------------------------------------------------------------------
(* State machine of the concurrent calls: every call of Calls has been     *)
(* handed its own list of its own dicts and runs run() step by step, the   *)
(* steps of the calls interleaved in any order.                            *)

InitPar ==
    /\ pc = "idle"
    /\ mode = "mixed"
    /\ ignore_areas = << >>
    /\ blocks = << >>
    /\ ocr_result = << >>
    /\ images_left = 0
    /\ spans_left = 0
    /\ img = << >>
    /\ text_blocks = << >>
    /\ units = << >>
    /\ i = 0
    /\ para_l = 0 /\ para_top = 0 /\ para_r = 0 /\ para_bottom = 0
    /\ para_line_h = 0
    /\ para_line_s = None
    /\ paras = << >>
    /\ paras_line_space = << >>
    /\ result = << >>
    /\ runs = 0
    /\ run1 = [text_blocks |-> << >>, paras |-> << >>]
    /\ \E in1 \in SeqsUpTo(ParBlocks, MaxParLen), in2 \in SeqsUpTo(ParBlocks, MaxParLen) :
          /\ heap = in1 \o in2
          /\ par_text_blocks =
                [c \in Calls |-> IF c = 1 THEN [k \in 1..Len(in1) |-> k]
                                 ELSE [k \in 1..Len(in2) |-> Len(in1) + k]]
    /\ par_pc = [c \in Calls |-> "call"]
    /\ frame = [c \in Calls |-> EmptyFrame]
    /\ par_result = [c \in Calls |-> << >>]
    /\ process_button = "normal"
    /\ verify_button = "normal"
    /\ progress = FALSE
    /\ proc_workers = << >>
    /\ verify_workers = 0
    /\ after_queue = << >>
    /\ last_path = "none"

(* run(): _get_units *)
ParRun(c) ==
    /\ par_pc[c] = "call"
    /\ IF GetUnitsRaises(Deref(heap, par_text_blocks[c]))
       THEN par_pc' = [par_pc EXCEPT ![c] = "error"] /\ UNCHANGED frame
       ELSE /\ par_pc' = [par_pc EXCEPT ![c] = "parse"]
            /\ frame' = [frame EXCEPT ![FrameOf(c)] =
                            [EmptyFrame EXCEPT !.units = UnitsOf(heap, par_text_blocks[c])]]
    /\ UNCHANGED << heap, par_text_blocks, par_result >>
    /\ UNCHANGED pageVars
    /\ UNCHANGED guiVars

(* _parse up to the scan loop *)
ParParseStart(c) ==
    /\ par_pc[c] = "parse"
    /\ IF NoUnits(frame[FrameOf(c)].units)
       THEN /\ par_pc' = [par_pc EXCEPT ![c] = "done"]
            /\ par_result' = [par_result EXCEPT ![c] =
                    << [text_blocks |-> RunReturn(Deref(heap, par_text_blocks[c]),
                                                  frame[FrameOf(c)].units),
                        paras |-> << >>,
                        during |-> par_pc] >>]
            /\ UNCHANGED frame
       ELSE IF Len(frame[FrameOf(c)].units) = 0
       THEN /\ par_pc' = [par_pc EXCEPT ![c] = "error"]      \* units[0]: IndexError
            /\ UNCHANGED << frame, par_result >>
       ELSE /\ frame' = [frame EXCEPT ![FrameOf(c)] = StartFrame(@)]
            /\ par_pc' = [par_pc EXCEPT ![c] = "scan"]
            /\ UNCHANGED par_result
    /\ UNCHANGED << heap, par_text_blocks >>
    /\ UNCHANGED pageVars
    /\ UNCHANGED guiVars

(* One iteration of `for i in range(1, len(units))` *)
ParScanStep(c) ==
    /\ par_pc[c] = "scan"
    /\ frame[FrameOf(c)].i <= Len(frame[FrameOf(c)].units)
    /\ frame' = [frame EXCEPT ![FrameOf(c)] = ScanFrame(@)]
    /\ UNCHANGED << heap, par_text_blocks, par_pc, par_result >>
    /\ UNCHANGED pageVars
    /\ UNCHANGED guiVars

(* The separator loop of _parse, and the return of run() *)
ParSetSeparators(c) ==
    /\ par_pc[c] = "scan"
    /\ frame[FrameOf(c)].i > Len(frame[FrameOf(c)].units)
    /\ heap' = SetEnds(heap, frame[FrameOf(c)].paras, 1)
    /\ par_result' = [par_result EXCEPT ![c] =
            << [text_blocks |-> RunReturn(Deref(heap', par_text_blocks[c]),
                                          frame[FrameOf(c)].units),
                paras |-> frame[FrameOf(c)].paras,
                during |-> par_pc] >>]
    /\ par_pc' = [par_pc EXCEPT ![c] = "done"]
    /\ UNCHANGED << par_text_blocks, frame >>
    /\ UNCHANGED pageVars
    /\ UNCHANGED guiVars

NextPar ==
    \E c \in Calls :
        \/ ParRun(c)
        \/ ParParseStart(c)
        \/ ParScanStep(c)
        \/ ParSetSeparators(c)

SpecPar == InitPar /\ [][NextPar]_vars

----------------------------------------------------------------------------
(* PDFProcessorGUI: the process and verify buttons, the worker threads     *)
(* they start, and the callbacks the threads hand back to the main loop.   *)
(* The main loop runs one event (a click, an `after` callback) at a time;  *)
(* the statements of a worker thread interleave with it.                   *)

MaxFiles == 2       \* PDF files found in pdf_process_ing in batch mode

ProcessingModes == { "single", "batch" }

(* A thread that has just been started on process_files *)
NewWorker(m) == [pc |-> "begin", mode |-> m, files |-> 0, idx |-> 0, success_count |-> 0]

(* Variant of the end of process_files: the callback is scheduled at the   *)
(* end of the function body, which a return or an exception skips          *)
FinallyNotOnEveryPath(q, path) ==
    IF path \in { "early_return", "exception" } THEN q
    ELSE Append(q, "processing_finished")

(* `finally: self.root.after(0, self.processing_finished)` *)
Finally(q, path) == Append(q, "processing_finished")

(* start_processing, as the command of process_button: a disabled ttk      *)
(* button does not invoke its command                                      *)
StartProcessing ==
    /\ process_button = "normal"
    /\ \/ UNCHANGED guiVars                      \* validate_inputs() is False
       \/ \E m \in ProcessingModes :
             /\ process_button' = "disabled"
             /\ progress' = TRUE
             /\ proc_workers' = Append(proc_workers, NewWorker(m))
             /\ UNCHANGED << verify_button, verify_workers, after_queue, last_path >>
    /\ UNCHANGED pageVars
    /\ UNCHANGED parVars

SetWorker(w, r) == [proc_workers EXCEPT ![w] = r]

(* process_files: os.makedirs, then the branch on processing_mode *)
WorkerBegin(w) ==
    /\ proc_workers[w].pc = "begin"
    /\ \/ proc_workers' = SetWorker(w, [proc_workers[w] EXCEPT !.pc = "except"])
       \/ proc_workers' = SetWorker(w, [proc_workers[w] EXCEPT !.pc = proc_workers[w].mode])
    /\ UNCHANGED << process_button, verify_button, progress, verify_workers,
                    after_queue, last_path >>
    /\ UNCHANGED pageVars
    /\ UNCHANGED parVars

(* Single mode: PDFToExcelProcessor().process_pdf_to_excel and the message *)
WorkerSingle(w) ==
    /\ proc_workers[w].pc = "single"
    /\ \E next \in { "success", "failure", "except" } :
          proc_workers' = SetWorker(w, [proc_workers[w] EXCEPT !.pc = next])
    /\ UNCHANGED << process_button, verify_button, progress, verify_workers,
                    after_queue, last_path >>
    /\ UNCHANGED pageVars
    /\ UNCHANGED parVars

(* Batch mode up to the loop: the directory is missing or holds no PDF     *)
(* (return), or the files are listed                                       *)
WorkerBatchList(w) ==
    /\ proc_workers[w].pc = "batch"
    /\ \/ proc_workers' = SetWorker(w, [proc_workers[w] EXCEPT !.pc = "early_return"])
       \/ proc_workers' = SetWorker(w, [proc_workers[w] EXCEPT !.pc = "except"])
       \/ \E n \in 1..MaxFiles :
             proc_workers' = SetWorker(w, [proc_workers[w] EXCEPT
                                              !.pc = "loop", !.files = n, !.idx = 1])
    /\ UNCHANGED << process_button, verify_button, progress, verify_workers,
                    after_queue, last_path >>
    /\ UNCHANGED pageVars
    /\ UNCHANGED parVars

(* One file of the batch loop; an exception is caught inside the loop *)
WorkerBatchFile(w) ==
    /\ proc_workers[w].pc = "loop"
    /\ proc_workers[w].idx <= proc_workers[w].files
    /\ \E success \in BOOLEAN :
          proc_workers' = SetWorker(w, [proc_workers[w] EXCEPT
                 !.idx = @ + 1,
                 !.success_count = IF success THEN @ + 1 ELSE @])
    /\ UNCHANGED << process_button, verify_button, progress, verify_workers,
                    after_queue, last_path >>
    /\ UNCHANGED pageVars
    /\ UNCHANGED parVars

(* After the loop: the summary message *)
WorkerBatchDone(w) ==
    /\ proc_workers[w].pc = "loop"
    /\ proc_workers[w].idx > proc_workers[w].files
    /\ \E next \in { "success", "except" } :
          proc_workers' = SetWorker(w, [proc_workers[w] EXCEPT !.pc = next])
    /\ UNCHANGED << process_button, verify_button, progress, verify_workers,
                    after_queue, last_path >>
    /\ UNCHANGED pageVars
    /\ UNCHANGED parVars

(* `except Exception`: log and error message *)
WorkerExcept(w) ==
    /\ proc_workers[w].pc = "except"
    /\ proc_workers' = SetWorker(w, [proc_workers[w] EXCEPT !.pc = "exception"])
    /\ UNCHANGED << process_button, verify_button, progress, verify_workers,
                    after_queue, last_path >>
    /\ UNCHANGED pageVars
    /\ UNCHANGED parVars

(* The try statement is left (end of a branch, return, or handler done):   *)
(* the finally clause runs and the thread ends                             *)
WorkerFinally(w) ==
    /\ proc_workers[w].pc \in { "success", "failure", "early_return", "exception" }
    /\ after_queue' = Finally(after_queue, proc_workers[w].pc)
    /\ last_path' = proc_workers[w].pc
    /\ proc_workers' = SubSeq(proc_workers, 1, w - 1)
                            \o SubSeq(proc_workers, w + 1, Len(proc_workers))
    /\ UNCHANGED << process_button, verify_button, progress, verify_workers >>
    /\ UNCHANGED pageVars
    /\ UNCHANGED parVars

(* start_verification, as the command of verify_button *)
StartVerification ==
    /\ verify_button = "normal"
    /\ \/ UNCHANGED guiVars                      \* no output directory set
       \/ /\ verify_button' = "disabled"
          /\ progress' = TRUE
          /\ verify_workers' = verify_workers + 1
          /\ UNCHANGED << process_button, proc_workers, after_queue, last_path >>
    /\ UNCHANGED pageVars
    /\ UNCHANGED parVars

(* verify_images: whatever happens, finally hands verification_finished    *)
(* to the main loop                                                        *)
VerifyImages ==
    /\ verify_workers > 0
    /\ verify_workers' = verify_workers - 1
    /\ after_queue' = Append(after_queue, "verification_finished")
    /\ UNCHANGED << process_button, verify_button, progress, proc_workers, last_path >>
    /\ UNCHANGED pageVars
    /\ UNCHANGED parVars

(* The main loop runs the oldest `after` callback: processing_finished or  *)
(* verification_finished                                                   *)
RunCallback ==
    /\ after_queue # << >>
    /\ after_queue' = Tail(after_queue)
    /\ progress' = FALSE
    /\ IF Head(after_queue) = "processing_finished"
       THEN process_button' = "normal" /\ UNCHANGED verify_button
       ELSE verify_button' = "normal" /\ UNCHANGED process_button
    /\ UNCHANGED << proc_workers, verify_workers, last_path >>
    /\ UNCHANGED pageVars
    /\ UNCHANGED parVars

NextGui ==
    \/ StartProcessing
    \/ StartVerification
    \/ \E w \in 1..Len(proc_workers) : WorkerBegin(w)
    \/ \E w \in 1..Len(proc_workers) : WorkerSingle(w)
    \/ \E w \in 1..Len(proc_workers) : WorkerBatchList(w)
    \/ \E w \in 1..Len(proc_workers) : WorkerBatchFile(w)
    \/ \E w \in 1..Len(proc_workers) : WorkerBatchDone(w)
    \/ \E w \in 1..Len(proc_workers) : WorkerExcept(w)
    \/ \E w \in 1..Len(proc_workers) : WorkerFinally(w)
    \/ VerifyImages
    \/ RunCallback

(* A started thread runs on to its end whatever its next statement is, and *)
(* the main loop keeps serving its callbacks; nobody has to click          *)
SpecGui ==
    /\ Init
    /\ [][NextGui]_vars
    /\ WF_vars(\E w \in 1..Len(proc_workers) : WorkerBegin(w))
    /\ WF_vars(\E w \in 1..Len(proc_workers) : WorkerSingle(w))
    /\ WF_vars(\E w \in 1..Len(proc_workers) : WorkerBatchList(w))
    /\ WF_vars(\E w \in 1..Len(proc_workers) : WorkerBatchFile(w))
    /\ WF_vars(\E w \in 1..Len(proc_workers) : WorkerBatchDone(w))
    /\ WF_vars(\E w \in 1..Len(proc_workers) : WorkerExcept(w))
    /\ WF_vars(\E w \in 1..Len(proc_workers) : WorkerFinally(w))
    /\ WF_vars(VerifyImages)
    /\ WF_vars(RunCallback)

----------------------------------------------------------------------------
(* Vocabulary of the properties *)

(* Every span the collaborators handed over, native lines first, then the  *)
(* recognized OCR lines, each as the observation it would become           *)
NativeSpans ==
    LET ls == PageLines(blocks)
    IN  [k \in 1..Len(ls) |->
            [box  |-> Quad(ls[k].bbox[1], ls[k].bbox[2], ls[k].bbox[3], ls[k].bbox[4]),
             text |-> Concat(ls[k].spans), from |-> "text", end |-> SepNone]]

OcrSpans ==
    [k \in 1..Len(ocr_result) |->
        [box |-> ocr_result[k].box, text |-> ocr_result[k].text, from |-> "ocr",
         end |-> SepNone, score |-> ocr_result[k].score]]

InputSpans == NativeSpans \o OcrSpans

(* The centre ((x0+x1)/2, (y0+y1)/2) of a box with corners (x0,y0), (x1,y1) *)
(* lies in the rectangle, boundary included                                *)
CenterInside(box, area) ==
    LET sx == box[1][1] + box[3][1]
        sy == box[1][2] + box[3][2]
    IN  /\ 2 * area[1] <= sx /\ sx <= 2 * area[3]
        /\ 2 * area[2] <= sy /\ sy <= 2 * area[4]

CenterIgnored(box) ==
    \E a \in 1..Len(ignore_areas) : CenterInside(box, ignore_areas[a])

(* The collection step of extract_text is over *)
Collected == pc # "idle" /\ images_left = 0

(* Positions (p, q) of the units in the paragraphs *)
Positions ==
    UNION { { << p, q >> : q \in 1..Len(paras[p]) } : p \in 1..Len(paras) }

Flat(ps) == Concat(ps)

Top(box) == SetMin({ box[k][2] : k \in 1..Len(box) })
Bottom(box) == SetMax({ box[k][2] : k \in 1..Len(box) })
Left(box) == SetMin({ box[k][1] : k \in 1..Len(box) })
Right(box) == SetMax({ box[k][1] : k \in 1..Len(box) })
Height(box) == Bottom(box) - Top(box)

WithoutEnd(tbs) == [k \in 1..Len(tbs) |-> [tbs[k] EXCEPT !.end = SepNone]]

----------------------------------------------------------------------------
(* Properties *)

\* C1: after _parse on a non-empty list, the paragraphs partition the input:
\* every observation of text_blocks is held by exactly one position of exactly
\* one paragraph, and the paragraphs hold nothing else.
ParagraphsPartitionInput ==
    (pc = "done" /\ text_blocks # << >>) =>
        /\ \A k \in 1..Len(text_blocks) :
              Cardinality({ pos \in Positions : paras[pos[1]][pos[2]].tb = k }) = 1
        /\ Cardinality(Positions) = Len(text_blocks)
        /\ \A p \in 1..Len(paras) : paras[p] # << >>

ParagraphsPartitionInputWitness ==
    /\ pc = "done"
    /\ Len(text_blocks) = 3
    /\ Len(paras) = 2
    /\ Len(paras[1]) = 2

\* C2: after reconstruction the last observation of every paragraph has the
\* separator "\n", single-observation paragraphs included.
LastOfParagraphEndsNewline ==
    pc = "done" =>
        \A p \in 1..Len(paras) :
            text_blocks[paras[p][Len(paras[p])].tb].end = SepNewline

LastOfParagraphEndsNewlineWitness ==
    /\ pc = "done"
    /\ \E p \in 1..Len(paras) : Len(paras[p]) = 1
    /\ \E p \in 1..Len(paras) :
          /\ Len(paras[p]) >= 2
          /\ text_blocks[paras[p][1].tb].end = SepSpace
          /\ text_blocks[paras[p][Len(paras[p])].tb].end = SepNewline

\* C3: for any input order the sequence run() returns is in reading order:
\* ascending top, the observations of each paragraph contiguous and in
\* paragraph order (the returned sequence is the paragraphs laid end to end).
ReturnedInReadingOrder ==
    (pc = "done" /\ text_blocks # << >>) =>
        /\ \A k \in 1..(Len(result) - 1) : Top(result[k].box) <= Top(result[k + 1].box)
        /\ Len(result) = Len(Flat(paras))
        /\ \A k \in 1..Len(result) : result[k] = text_blocks[Flat(paras)[k].tb]

\* C4: no observation whose box centre lies in an ignore rectangle (boundary
\* included) is in the list extract_text builds and returns.
IgnoredCenterNeverCollected ==
    /\ \A k \in 1..Len(text_blocks) : ~ CenterIgnored(text_blocks[k].box)
    /\ \A k \in 1..Len(result) : ~ CenterIgnored(result[k].box)

IgnoredCenterNeverCollectedWitness ==
    /\ pc = "done"
    /\ result # << >>
    /\ \E k \in 1..Len(NativeSpans) :
          /\ NativeSpans[k].text # << >>
          /\ \E a \in 1..Len(ignore_areas) :
                /\ CenterInside(NativeSpans[k].box, ignore_areas[a])
                /\ NativeSpans[k].box[1][1] + NativeSpans[k].box[3][1] = 2 * ignore_areas[a][3]
    /\ \E k \in 1..Len(OcrSpans) : CenterIgnored(OcrSpans[k].box)

NotIgnored(spans) == SelectSeq(spans, LAMBDA o : ~ CenterIgnored(o.box))

\* C5 (as claimed): the Collector emits exactly one observation, tagged with
\* its provenance, for every input span whose centre is in no ignore
\* rectangle: native spans first, then OCR spans, each in input order.
CollectorEmitsEverySpan ==
    Collected => WithoutEnd(text_blocks) = NotIgnored(InputSpans)

\* C5 (amended): the Collector emits exactly one observation, tagged with its
\* provenance, for every native line whose text is non-empty and every OCR
\* span, whose centre is in no ignore rectangle: native first, then OCR, each
\* in input order, nothing else dropped or duplicated.
CollectorEmitsEveryNonEmptySpan ==
    Collected =>
        WithoutEnd(text_blocks) =
            NotIgnored(SelectSeq(NativeSpans, LAMBDA o : o.text # << >>)) \o NotIgnored(OcrSpans)

CollectorEmitsEveryNonEmptySpanWitness ==
    /\ Collected
    /\ ignore_areas # << >>
    /\ \E k \in 1..Len(NativeSpans) : NativeSpans[k].text = << >>
    /\ \E k \in 1..Len(text_blocks) : text_blocks[k].from = "text"
    /\ \E k \in 1..Len(text_blocks) : text_blocks[k].from = "ocr"

\* C6: with zero observations run() returns an empty result at once: no
\* error, no paragraph built, no scan, no separator set.
EmptyInputReturnsEmpty ==
    (text_blocks = << >> /\ pc \in { "parse", "scan", "done", "error" }) =>
        /\ pc \in { "parse", "done" }
        /\ units = << >>
        /\ paras = << >>
        /\ result = << >>

EmptyInputReturnsEmptyWitness ==
    /\ pc = "done"
    /\ blocks = << >>
    /\ ocr_result = << >>
    /\ text_blocks = << >>
    /\ result = << >>

BoxTextEnd(tbs) == [k \in 1..Len(tbs) |-> << tbs[k].box, tbs[k].text, tbs[k].end >>]

E2EInput ==
    /\ BoxTextEnd(InputSpans) =
          << << Quad(0, 0, 100, 20), Hello, SepNone >>,
             << Quad(0, 22, 100, 42), World, SepNone >>,
             << Quad(0, 200, 100, 220), Footer, SepNone >> >>
    /\ ignore_areas = << << 0, 190, 200, 230 >> >>

\* C7: for Hello (0,0,100,20), World (0,22,100,42), Footer (0,200,100,220)
\* and the ignore rectangle (0,190,200,230) the output is exactly one
\* paragraph, Hello with separator " " then World with separator "\n";
\* Footer is excluded.
EndToEndExample ==
    (pc = "done" /\ E2EInput) =>
        /\ BoxTextEnd(result) =
              << << Quad(0, 0, 100, 20), Hello, SepSpace >>,
                 << Quad(0, 22, 100, 42), World, SepNewline >> >>
        /\ Len(paras) = 1
        /\ [k \in 1..Len(paras[1]) |-> text_blocks[paras[1][k].tb].text] = << Hello, World >>

EndToEndExampleWitness ==
    /\ pc = "done"
    /\ E2EInput
    /\ Len(result) = 2

\* C8: a second run() on the list the first run() returned leaves the same
\* paragraph grouping and the same separator on every observation.
RerunSameResult ==
    (pc = "done" /\ runs = 2) =>
        /\ text_blocks = run1.text_blocks
        /\ paras = run1.paras

RerunSameResultWitness ==
    /\ pc = "done"
    /\ runs = 2
    /\ Len(paras) = 2
    /\ \E k \in 1..(Len(text_blocks) - 1) :
          Top(text_blocks[k].box) > Top(text_blocks[k + 1].box)
    /\ \E k \in 1..Len(text_blocks) : text_blocks[k].end = SepSpace

SharedMargins(u, v) ==
    /\ Left(u.bbox) = Left(v.bbox)
    /\ Right(u.bbox) = Right(v.bbox)

MaxOf(a, b) == IF a >= b THEN a ELSE b

(* The left edge of w is shifted, relative to the lines u and v, by more    *)
(* than 1.2 times the line height of either                                *)
LeftShifted(u, v, w) ==
    5 * Abs(Left(w.bbox) - Left(u.bbox)) > 6 * MaxOf(Height(u.bbox), Height(v.bbox))

\* C9: when the first two lines of a paragraph share their margins and the
\* next line has its left edge shifted by more than 1.2 times the line height
\* relative to them, that line is not in their paragraph: it starts a new one.
LeftShiftStartsParagraph ==
    pc = "done" =>
        \A p \in 1..Len(paras) :
            (Len(paras[p]) >= 3 /\ SharedMargins(paras[p][1], paras[p][2]))
                => ~ LeftShifted(paras[p][1], paras[p][2], paras[p][3])

LeftShiftStartsParagraphWitness ==
    /\ pc = "done"
    /\ Len(units) = 3
    /\ SharedMargins(units[1], units[2])
    /\ LeftShifted(units[1], units[2], units[3])
    /\ Right(units[3].bbox) = Right(units[1].bbox)
    /\ paras = << << units[1], units[2] >>, << units[3] >> >>

\* C10: once a paragraph has an established spacing, a line with the same
\* margins as the line before it, whose gap to that line exceeds the
\* established spacing by more than 0.5 times the line height, is put in a
\* new paragraph.
VerticalGapStartsParagraph ==
    [][ ( /\ pc = "scan"
          /\ i <= Len(units)
          /\ para_line_s.def
          /\ SharedMargins(units[i - 1], units[i])
          /\ 2 * (Top(units[i].bbox) - Bottom(units[i - 1].bbox)) * SCALE
                > 2 * para_line_s.v + para_line_h )
        => ( /\ Len(paras') = Len(paras) + 1
             /\ paras'[Len(paras')] = << units[i] >> ) ]_vars

VerticalGapStartsParagraphWitness ==
    /\ pc = "done"
    /\ Len(units) = 3
    /\ SharedMargins(units[1], units[2])
    /\ SharedMargins(units[2], units[3])
    /\ Left(units[1].bbox) = 0
    /\ Height(units[1].bbox) = Height(units[2].bbox)
    /\ (Top(units[3].bbox) - Bottom(units[2].bbox)) * 2
          > (Top(units[2].bbox) - Bottom(units[1].bbox)) * 2 + Height(units[1].bbox)
    /\ paras = << << units[1], units[2] >>, << units[3] >> >>

LastLetter(tb) == tb.text[Len(tb.text)]
FirstLetter(tb) == tb.text[1]

(* The observation at position j of the sorted order *)
Obs(j) == text_blocks[units[j].tb]

(* The observation at position q of paragraph p *)
ParaObs(p, q) == text_blocks[paras[p][q].tb]

\* C11: an observation whose text ends in "-" and that is followed by another
\* observation never has the separator " ", whatever the following text
\* starts with and whether or not the two share a paragraph.
HyphenNeverSpace ==
    pc = "done" =>
        \A j \in 1..(Len(units) - 1) :
            LastLetter(Obs(j)) = 45 => Obs(j).end # SepSpace

HyphenNeverSpaceWitness ==
    /\ pc = "done"
    /\ \E p \in 1..Len(paras) : \E q \in 1..(Len(paras[p]) - 1) :
          /\ LastLetter(ParaObs(p, q)) = 45
          /\ ~ IsPunctuation(FirstLetter(ParaObs(p, q + 1)))
          /\ ~ is_cjk(FirstLetter(ParaObs(p, q + 1)))
          /\ ParaObs(p, q).end = SepNone

StartsWithCommaDotQuote(tb) == FirstLetter(tb) \in { 44, 46, 34 }

\* C12 (as claimed): any observation that is followed by an observation whose
\* text starts with "," or "." or '"' has the separator "".
PunctuationFollowerGivesNone ==
    pc = "done" =>
        \A j \in 1..(Len(units) - 1) :
            StartsWithCommaDotQuote(Obs(j + 1)) => Obs(j).end = SepNone

\* C12 (amended): any observation that is followed, within its paragraph, by
\* an observation whose text starts with "," or "." or '"' has the separator
\* "", not " "; when the follower starts a new paragraph the separator is "\n".
PunctuationFollowerInParagraphGivesNone ==
    pc = "done" =>
        /\ \A p \in 1..Len(paras) : \A q \in 1..(Len(paras[p]) - 1) :
              StartsWithCommaDotQuote(ParaObs(p, q + 1)) => ParaObs(p, q).end = SepNone
        /\ \A p \in 1..(Len(paras) - 1) :
              StartsWithCommaDotQuote(ParaObs(p + 1, 1))
                  => ParaObs(p, Len(paras[p])).end = SepNewline

PunctuationFollowerInParagraphGivesNoneWitness ==
    /\ pc = "done"
    /\ \E p \in 1..Len(paras) : \E q \in 1..(Len(paras[p]) - 1) :
          /\ StartsWithCommaDotQuote(ParaObs(p, q + 1))
          /\ LastLetter(ParaObs(p, q)) # 45
          /\ ~ is_cjk(LastLetter(ParaObs(p, q)))
          /\ ParaObs(p, q).end = SepNone
    /\ \E p \in 1..(Len(paras) - 1) : StartsWithCommaDotQuote(ParaObs(p + 1, 1))

(* The CJK ideographs of the texts above *)
IsCjkChar(c) == c \in { 20320, 22909, 19990, 30028 }

\* C13 (as claimed): for two vertically adjacent observations with matching
\* margins, the first ending and the second starting with a CJK character,
\* the separator stored on the first is "".
CjkAdjacentGivesNone ==
    pc = "done" =>
        \A j \in 1..(Len(units) - 1) :
            ( /\ SharedMargins(units[j], units[j + 1])
              /\ IsCjkChar(LastLetter(Obs(j)))
              /\ IsCjkChar(FirstLetter(Obs(j + 1))) )
                => Obs(j).end = SepNone

\* C13 (amended): for two vertically adjacent observations with matching
\* margins that the scan puts in the same paragraph (always so when the first
\* one starts its paragraph), the first ending and the second starting with a
\* CJK character, the separator stored on the first is "".
CjkAdjacentInParagraphGivesNone ==
    pc = "done" =>
        /\ \A p \in 1..Len(paras) : \A q \in 1..(Len(paras[p]) - 1) :
              ( /\ SharedMargins(paras[p][q], paras[p][q + 1])
                /\ IsCjkChar(LastLetter(ParaObs(p, q)))
                /\ IsCjkChar(FirstLetter(ParaObs(p, q + 1))) )
                  => ParaObs(p, q).end = SepNone
        /\ \A p \in 1..(Len(paras) - 1) :
              Len(paras[p]) = 1 => ~ SharedMargins(paras[p][1], paras[p + 1][1])

CjkAdjacentInParagraphGivesNoneWitness ==
    /\ pc = "done"
    /\ \E p \in 1..Len(paras) :
          /\ Len(paras[p]) >= 2
          /\ SharedMargins(paras[p][1], paras[p][2])
          /\ ParaObs(p, 1).text = NiHao
          /\ ParaObs(p, 2).text = ShiJie
          /\ Top(paras[p][2].bbox) >= Bottom(paras[p][1].bbox)
          /\ ParaObs(p, 1).end = SepNone

\* C14: collection plus reconstruction never end in an error, whatever the
\* texts and boxes of the observations (degenerate box, empty text): every
\* call of extract_text returns a result.
CoreNeverRaises == pc # "error"

(* The lines of a recognized image whose box has its 4 points, each as the *)
(* observation it would become                                             *)
FourPointSpans(im) ==
    LET ls == SelectSeq(im.lines, LAMBDA ln : Len(ln[1]) >= 4)
    IN  [k \in 1..Len(ls) |->
            [box |-> SubSeq(ls[k][1], 1, 4), text |-> ls[k][2], from |-> "ocr",
             end |-> SepNone, score |-> ls[k][3]]]

IsSuffix(s, t) ==
    /\ Len(s) <= Len(t)
    /\ SubSeq(t, Len(t) - Len(s) + 1, Len(t)) = s

\* C15: a recognized line whose box has fewer than 4 points is rejected by
\* the collection step alone: right after an image has been handled, the
\* list ends with the image's other lines (those with a 4-point box and a
\* centre in no ignore rectangle), in order, and the short box is not there.
ShortBoxAloneRejected ==
    (pc = "images" /\ img # << >> /\ img[1].decodable) =>
        /\ IsSuffix(NotIgnored(FourPointSpans(img[1])), text_blocks)
        /\ \A k \in 1..Len(text_blocks) : Len(text_blocks[k].box) >= 4

\* C16 (as claimed): when the running line height of the paragraph is 0 (a
\* box with top = bottom started it), the next observation always starts a
\* new paragraph.
ZeroHeightForcesNewParagraph ==
    [][ (pc = "scan" /\ i <= Len(units) /\ para_line_h = 0)
        => Len(paras') = Len(paras) + 1 ]_vars

\* C16 (amended): when the running line height of the paragraph is 0, the
\* tolerance is 0: the next observation starts a new paragraph as soon as its
\* left or right edge differs from the running edge of the paragraph, and
\* joins the paragraph when both edges are equal to them and no spacing is
\* established yet.
ZeroHeightNeedsExactMargins ==
    [][ (pc = "scan" /\ i <= Len(units) /\ para_line_h = 0)
        => /\ ( Left(units[i].bbox) * SCALE # para_l
                \/ Right(units[i].bbox) * SCALE # para_r )
              => ( /\ Len(paras') = Len(paras) + 1
                   /\ paras'[Len(paras')] = << units[i] >> )
           /\ ( /\ Left(units[i].bbox) * SCALE = para_l
                /\ Right(units[i].bbox) * SCALE = para_r
                /\ ~ para_line_s.def )
              => ( /\ Len(paras') = Len(paras)
                   /\ paras'[Len(paras')] = Append(paras[Len(paras)], units[i]) ) ]_vars

ZeroHeightNeedsExactMarginsWitness ==
    /\ pc = "done"
    /\ \E p \in 1..(Len(paras) - 1) :
          /\ Len(paras[p]) = 1
          /\ Height(paras[p][1].bbox) = 0
          /\ Left(paras[p + 1][1].bbox) # Left(paras[p][1].bbox)
          /\ Top(paras[p + 1][1].bbox) >= Bottom(paras[p][1].bbox)

(* An ignore rectangle with x0 > x1 or y0 > y1 *)
Inverted(area) == area[1] > area[3] \/ area[2] > area[4]

(* The centre of the box lies in the rectangle spanned by the two corners  *)
(* of the area, whichever way round they are given                         *)
CenterInsideSpan(box, area) ==
    CenterInside(box, << SetMin({ area[1], area[3] }), SetMin({ area[2], area[4] }),
                         SetMax({ area[1], area[3] }), SetMax({ area[2], area[4] }) >>)

(* The collection computed without the inverted rectangles *)
NotIgnoredByProper(spans) ==
    SelectSeq(spans, LAMBDA o :
        ~ \E a \in 1..Len(ignore_areas) :
              ~ Inverted(ignore_areas[a]) /\ CenterInside(o.box, ignore_areas[a]))

\* C17: an ignore rectangle with x0 > x1 or y0 > y1 excludes nothing: the
\* collected list is the one collected with the same rectangles less the
\* inverted ones, and every observation lying between the corners of an
\* inverted rectangle only is collected.
InvertedRectangleExcludesNothing ==
    Collected =>
        WithoutEnd(text_blocks) =
            NotIgnoredByProper(SelectSeq(NativeSpans, LAMBDA o : o.text # << >>))
                \o NotIgnoredByProper(OcrSpans)

InvertedRectangleExcludesNothingWitness ==
    /\ pc = "done"
    /\ \E a \in 1..Len(ignore_areas), k \in 1..Len(text_blocks) :
          /\ Inverted(ignore_areas[a])
          /\ CenterInsideSpan(text_blocks[k].box, ignore_areas[a])
    /\ \E a \in 1..Len(ignore_areas), k \in 1..Len(InputSpans) :
          /\ ~ Inverted(ignore_areas[a])
          /\ CenterInside(InputSpans[k].box, ignore_areas[a])

\* C19: every observation leaves the collection step with the separator "",
\* and once run() has returned every observation's separator is one of "",
\* " " and "\n".
SeparatorDomain ==
    /\ pc = "images" => \A k \in 1..Len(text_blocks) : text_blocks[k].end = SepNone
    /\ pc = "done" =>
          \A k \in 1..Len(text_blocks) :
              text_blocks[k].end \in { SepNone, SepSpace, SepNewline }

SeparatorDomainWitness ==
    /\ pc = "done"
    /\ runs = 1
    /\ \E k \in 1..Len(text_blocks) : text_blocks[k].from = "text"
    /\ \E k \in 1..Len(text_blocks) : text_blocks[k].from = "ocr"
    /\ { text_blocks[k].end : k \in 1..Len(text_blocks) } = { SepNone, SepSpace, SepNewline }

IsPrefix(s, t) == Len(s) <= Len(t) /\ SubSeq(t, 1, Len(s)) = s

\* C20: no step of extract_text changes what the collaborators handed over
\* (the native blocks, the OCR results obtained so far, the ignore
\* rectangles), and once the list is collected run() changes nothing of it
\* but the separators: length, order, and each observation's box, text and
\* source stay as they are.
OnlySeparatorsChange ==
    [][ /\ pc # "idle" =>
              /\ blocks' = blocks
              /\ ignore_areas' = ignore_areas
              /\ IsPrefix(ocr_result, ocr_result')
        /\ Collected => WithoutEnd(text_blocks') = WithoutEnd(text_blocks) ]_vars

OnlySeparatorsChangeWitness ==
    /\ pc = "done"
    /\ blocks # << >> /\ ocr_result # << >> /\ ignore_areas # << >>
    /\ Len(text_blocks) >= 2
    /\ Top(text_blocks[1].box) > Top(text_blocks[2].box)
    /\ \E k \in 1..Len(text_blocks) : text_blocks[k].end # SepNone

(* run() on the list of call c, executed alone from entry to return: the   *)
(* paragraphs it builds and the list it returns                            *)
RunAlone(c) ==
    LET us == UnitsOf(heap, par_text_blocks[c])
    IN  IF us = << >>
        THEN [text_blocks |-> << >>, paras |-> << >>]
        ELSE LET f == ScanAll(StartFrame([EmptyFrame EXCEPT !.units = us]))
                 objs == [k \in 1..Len(heap) |-> [heap[k] EXCEPT !.end = SepNone]]
             IN  [text_blocks |-> Deref(SetEnds(objs, f.paras, 1), par_text_blocks[c]),
                  paras |-> f.paras]

\* C18: with several run() calls in flight on one ParagraphParse instance,
\* each on its own list, in any interleaving of their steps, every call
\* returns the grouping and the separators that run() gives on its list when
\* executed alone, and its observations keep them whatever the other calls
\* do afterwards.
ConcurrentEqualsSequential ==
    \A c \in Calls :
        par_pc[c] = "done" =>
            /\ par_result[c][1].text_blocks = RunAlone(c).text_blocks
            /\ par_result[c][1].paras = RunAlone(c).paras
            /\ Deref(heap, par_text_blocks[c]) = RunAlone(c).text_blocks

ConcurrentEqualsSequentialWitness ==
    /\ par_pc[1] = "done" /\ par_pc[2] = "done"
    /\ par_result[1][1].during[2] = "scan"
    /\ Len(par_result[1][1].paras) = 1
    /\ Len(par_result[1][1].paras[1]) = 2
    /\ Len(par_result[2][1].paras) = 2
    /\ par_result[1][1].text_blocks # par_result[2][1].text_blocks

(* The scan is about to handle observation i *)
Scanning == pc = "scan" /\ i <= Len(units)

(* |para_left - l| <= 1.2 * para_line_h, |para_right - r| <= 1.2 *         *)
(* para_line_h and (s undefined or ls < s + 0.5 * para_line_h), on the     *)
(* running values as they are before observation i is handled              *)
MergeTest ==
    /\ 5 * Abs(para_l - Left(units[i].bbox) * SCALE) <= 6 * para_line_h
    /\ 5 * Abs(para_r - Right(units[i].bbox) * SCALE) <= 6 * para_line_h
    /\ \/ ~ para_line_s.def
       \/ 2 * (Top(units[i].bbox) - para_bottom) * SCALE < 2 * para_line_s.v + para_line_h

Merged == paras' = [paras EXCEPT ![Len(paras)] = Append(@, units[i])]
Splitted == paras' = Append(paras, << units[i] >>)

\* C21: during the scan, observation i is merged into the current paragraph
\* exactly when the two margin tests and the spacing test pass on the running
\* values held before it is handled; otherwise it starts a new paragraph.
MergedExactlyWhenTestPasses ==
    [][ Scanning => IF MergeTest THEN Merged /\ ~ Splitted ELSE Splitted /\ ~ Merged ]_vars

MergedExactlyWhenTestPassesWitness ==
    /\ pc = "done"
    /\ Len(units) = 3
    /\ paras = << units >>
    /\ Height(units[1].bbox) > 0
    /\ Height(units[3].bbox) = 0
    /\ Top(units[3].bbox) - Bottom(units[2].bbox) >= Top(units[2].bbox) - Bottom(units[1].bbox)

\* C22: on a merge the running values become para_left = (para_left + l) / 2,
\* para_right = (para_right + r) / 2, para_line_h = (para_line_h + h_i) / 2
\* and s = ls when s was undefined, else (s + ls) / 2; the observation is
\* appended to the current paragraph and no paragraph is created.
MergeAveragesRunningValues ==
    [][ (Scanning /\ MergeTest) =>
            /\ 2 * para_l' = para_l + Left(units[i].bbox) * SCALE
            /\ 2 * para_r' = para_r + Right(units[i].bbox) * SCALE
            /\ 2 * para_line_h' = para_line_h + Height(units[i].bbox) * SCALE
            /\ para_line_s'.def
            /\ IF para_line_s.def
               THEN 2 * para_line_s'.v
                        = para_line_s.v + (Top(units[i].bbox) - para_bottom) * SCALE
               ELSE para_line_s'.v = (Top(units[i].bbox) - para_bottom) * SCALE
            /\ Len(paras') = Len(paras)
            /\ paras'[Len(paras)] = Append(paras[Len(paras)], units[i]) ]_vars

MergeAveragesRunningValuesWitness ==
    /\ pc = "scan"
    /\ i = 4
    /\ paras = << units >>
    /\ Height(units[1].bbox) = Height(units[2].bbox)
    /\ Height(units[3].bbox) # Height(units[2].bbox)
    /\ 2 * para_line_h = (Height(units[2].bbox) + Height(units[3].bbox)) * SCALE
    /\ para_line_s.def
    /\ 2 * para_line_s.v = ( (Top(units[2].bbox) - Bottom(units[1].bbox))
                              + (Top(units[3].bbox) - Bottom(units[2].bbox)) ) * SCALE

\* C23: on a split the new paragraph is seeded from the splitting observation
\* alone: para_left, para_right and para_line_h become its left, right and
\* height and s becomes undefined, so the next same-paragraph test reads
\* nothing of the closed paragraph's margins, line height or spacing.
SplitSeedsFromObservation ==
    [][ (Scanning /\ ~ MergeTest) =>
            /\ para_l' = Left(units[i].bbox) * SCALE
            /\ para_r' = Right(units[i].bbox) * SCALE
            /\ para_line_h' = Height(units[i].bbox) * SCALE
            /\ ~ para_line_s'.def
            /\ Splitted ]_vars

SplitSeedsFromObservationWitness ==
    /\ pc = "scan"
    /\ i = 4
    /\ Len(paras) = 2
    /\ Len(paras[1]) = 2
    /\ paras_line_space[2].def
    /\ ~ para_line_s.def
    /\ para_l = Left(units[3].bbox) * SCALE
    /\ Left(units[3].bbox) # Left(units[2].bbox)
    /\ para_line_h = Height(units[3].bbox) * SCALE

\* C24: after each scanned observation, merged or not, para_bottom is that
\* observation's bottom: whenever the scan is at observation i, para_bottom
\* is the bottom of observation i - 1 of the sorted order, so the candidate
\* spacing of observation i is its top minus that bottom.
ParaBottomTracksLatest ==
    pc = "scan" => para_bottom = Bottom(units[i - 1].bbox)

ParaBottomTracksLatestWitness ==
    /\ pc = "scan"
    /\ i = 4
    /\ Len(paras) = 2
    /\ Len(paras[2]) = 1
    /\ Bottom(units[3].bbox) # Bottom(units[2].bbox)
    /\ para_bottom = Bottom(units[3].bbox)

(* The characters of the texts used here that are in a punctuation category *)
IsPunctuationChar(c) == c \in { 44, 45, 46 }

\* C25: inside a paragraph the separator stored on an observation is a
\* function of the last character c1 of its text and the first character c2
\* of the next text only: " " exactly when not both are CJK, c1 is not "-"
\* and c2 is not punctuation, and "" otherwise.
WordSeparatorRule ==
    pc = "done" =>
        \A p \in 1..Len(paras) : \A q \in 1..(Len(paras[p]) - 1) :
            LET c1 == LastLetter(ParaObs(p, q))
                c2 == FirstLetter(ParaObs(p, q + 1))
            IN  ParaObs(p, q).end =
                    IF /\ ~ (IsCjkChar(c1) /\ IsCjkChar(c2))
                       /\ c1 # 45
                       /\ ~ IsPunctuationChar(c2)
                    THEN SepSpace
                    ELSE SepNone

WordSeparatorRuleWitness ==
    /\ pc = "done"
    /\ \E p \in 1..Len(paras) :
          /\ Len(paras[p]) = 3
          /\ IsCjkChar(LastLetter(ParaObs(p, 1)))
          /\ ~ IsCjkChar(FirstLetter(ParaObs(p, 2)))
          /\ ParaObs(p, 1).end = SepSpace
          /\ IsPunctuationChar(FirstLetter(ParaObs(p, 3)))
          /\ ParaObs(p, 2).end = SepNone

(* Ascending by top, and by position in the input list among equal tops *)
StableByTop(us) ==
    \A a, b \in 1..Len(us) :
        a < b => \/ Top(us[a].bbox) < Top(us[b].bbox)
                 \/ Top(us[a].bbox) = Top(us[b].bbox) /\ us[a].tb < us[b].tb

\* C26: the scan handles the observations in the order of a stable sort by
\* top ascending, and the paragraphs are contiguous runs of that order: the
\* scanned list holds every observation once, ascending by top with ties in
\* input order, and the concatenation of the paragraphs in creation order is
\* the part of it scanned so far (all of it at the end).
ParagraphsAreRunsOfStableSort ==
    (pc \in { "scan", "done" } /\ units # << >>) =>
        /\ StableByTop(units)
        /\ Len(units) = Len(text_blocks)
        /\ { units[k].tb : k \in 1..Len(units) } = 1..Len(text_blocks)
        /\ \A k \in 1..Len(units) : units[k].bbox = text_blocks[units[k].tb].box
        /\ Flat(paras) = SubSeq(units, 1, i - 1)
        /\ pc = "done" => i = Len(units) + 1

ParagraphsAreRunsOfStableSortWitness ==
    /\ pc = "done"
    /\ Len(units) = 3
    /\ Len(paras) = 2
    /\ \E k \in 1..2 : /\ Top(units[k].bbox) = Top(units[k + 1].bbox)
                        /\ Bottom(units[k].bbox) > Bottom(units[k + 1].bbox)
    /\ Top(text_blocks[1].box) > Top(text_blocks[3].box)

(* recognize cannot produce a result for the image: it does not decode, the *)
(* engine found no text, or a line of the engine's result cannot be read    *)
NothingRecognized(im) ==
    \/ ~ im.decodable
    \/ im.lines = << >>
    \/ \E k \in 1..Len(im.lines) : Len(im.lines[k][1]) < 4

(* The step that handles one image *)
ImageHandled == pc = "images" /\ images_left' = images_left - 1

\* C27: recognize reports no error to its caller: when the engine finds no
\* text, or decoding or recognition fails, the image contributes an empty
\* sequence, no error is raised, and the observations collected so far are
\* kept for the rest of the page.
RecognizeFailureGivesNothing ==
    [][ (ImageHandled /\ NothingRecognized(img'[1])) =>
            /\ pc' = "images"
            /\ ocr_result' = ocr_result
            /\ text_blocks' = text_blocks ]_vars

RecognizeFailureGivesNothingWitness ==
    /\ pc = "images"
    /\ images_left = 0
    /\ img # << >>
    /\ img[1].decodable
    /\ Len(img[1].lines) = 2
    /\ Len(img[1].lines[1][1]) = 4
    /\ Len(img[1].lines[2][1]) < 4
    /\ \E k \in 1..Len(text_blocks) : text_blocks[k].from = "text"

(* The centre of the axis-aligned extent (min / max over the points) of the *)
(* box lies in one of the ignore rectangles, boundary included              *)
ExtentCenterIgnored(box) ==
    \E a \in 1..Len(ignore_areas) :
        /\ 2 * ignore_areas[a][1] <= Left(box) + Right(box)
        /\ Left(box) + Right(box) <= 2 * ignore_areas[a][3]
        /\ 2 * ignore_areas[a][2] <= Top(box) + Bottom(box)
        /\ Top(box) + Bottom(box) <= 2 * ignore_areas[a][4]

\* C28: for every OCR observation, also one that is not axis-aligned, the
\* ignore filter decides on the centre of the axis-aligned extent of its 4
\* points: the OCR observations collected are exactly the recognized lines
\* whose extent centre is in no ignore rectangle.
FilterDecidesOnExtentCenter ==
    Collected =>
        SelectSeq(WithoutEnd(text_blocks), LAMBDA o : o.from = "ocr")
            = SelectSeq(OcrSpans, LAMBDA o : ~ ExtentCenterIgnored(o.box))

\* C29: after run() on a non-empty list, an observation has the separator
\* "\n" only if it is the last of its paragraph; the observations with "\n"
\* are as many as the paragraphs, at least 1 and at most the number of
\* observations.
NewlinesCountParagraphs ==
    (pc = "done" /\ text_blocks # << >>) =>
        /\ \A p \in 1..Len(paras) : \A q \in 1..Len(paras[p]) :
              ParaObs(p, q).end = SepNewline => q = Len(paras[p])
        /\ Cardinality({ k \in 1..Len(text_blocks) : text_blocks[k].end = SepNewline })
              = Len(paras)
        /\ 1 <= Len(paras)
        /\ Len(paras) <= Len(text_blocks)

NewlinesCountParagraphsWitness ==
    /\ pc = "done"
    /\ Len(text_blocks) = 3
    /\ Len(paras) = 2
    /\ Cardinality({ k \in 1..Len(text_blocks) : text_blocks[k].end = SepNewline }) = 2
    /\ text_blocks[3].end # SepNewline

====
